---- MODULE Spec2Model ----
(***************************************************************************)
(* Zen Gomoku: the rules engine (checkWin), the board codec                *)
(* (serializeBoard / deserializeBoard), the move evaluator (getBestMove    *)
(* and its three tiers) and the App session (handleCellClick, makeAIMove,  *)
(* resetGame, the URL-hash load).                                          *)
(*                                                                         *)
(* A grid is a function [0..BOARD_SIZE-1 -> [0..BOARD_SIZE-1 -> Player]],  *)
(* a cell coordinate is a record [row, col], a JavaScript array is a       *)
(* sequence, a JavaScript string is a sequence of one-character strings.   *)
(***************************************************************************)
EXTENDS Integers, Sequences, FiniteSets, TLC

VARIABLES
    wGrid,      \* checkWin: the grid argument
    wCall,      \* checkWin: [row, col, player] of the last call, or NoCall
    wResult,    \* checkWin: the value returned by the last call
    cFrom,      \* codec: "board" when the input is a grid, "string" when a token
    cBoard,     \* codec: the grid given to serializeBoard
    cToken,     \* codec: the token (serializeBoard's result, or the input string)
    cOut,       \* codec: the grid returned by deserializeBoard
    cpc,        \* codec: "board", then "token", then "decoded"
    aGrid,      \* evaluator: the grid argument of getBestMove
    aCall,      \* evaluator: the other arguments and the oracle's outcome, or NoAICall
    aPossible,  \* evaluator: the coordinates that call can return, over all draws
    boardState, \* App: [grid, currentPlayer, winner, history, winningLine]
    gameMode,   \* App: "LOCAL", "AI" or "REMOTE_LINK"
    difficulty, \* App: "EASY", "MEDIUM" or "HARD"
    apiKey,     \* App: the API key, "" when none is stored
    isThinking, \* App: TRUE from the scheduling of an AI move to makeAIMove
    aiTask,     \* App: the scheduled AI move: its phase and what its closure captured
    lastOp,     \* the step that last read or wrote the board, and its outcome
    hash        \* window.location.hash without its "#", as characters

winVars == <<wGrid, wCall, wResult>>
codecVars == <<cFrom, cBoard, cToken, cOut, cpc>>
aiVars == <<aGrid, aCall, aPossible>>
appVars == <<boardState, gameMode, difficulty, apiKey, isThinking>>
sessionVars == <<appVars, aiTask, lastOp, hash>>
vars == <<winVars, codecVars, aiVars, sessionVars>>

----------------------------------------------------------------------------
(* Configuration (constants.ts) and the Player enum (types.ts).            *)

\* Side of the board. The repository's default is 15; the model is checked
\* on a smaller board.
BOARD_SIZE == 7

\* Stones in a row needed to win.
WIN_COUNT == 5

PlayerNone == 0
PlayerBlack == 1
PlayerWhite == 2

Player == {PlayerNone, PlayerBlack, PlayerWhite}
Stones == {PlayerBlack, PlayerWhite}

Coord == 0 .. (BOARD_SIZE - 1)
Cells == [row : Coord, col : Coord]
Cell(r, c) == [row |-> r, col |-> c]
InRange(r, c) == r >= 0 /\ r < BOARD_SIZE /\ c >= 0 /\ c < BOARD_SIZE

\* null, as the value of a winning line
NoLine == <<>>

createEmptyGrid == [r \in Coord |-> [c \in Coord |-> PlayerNone]]

----------------------------------------------------------------------------
(* checkWin (services/gameLogic.ts)                                        *)

\* [dx, dy] pairs in the order of the source: dx steps the row, dy the column.
directions == << <<0, 1>>, <<1, 0>>, <<1, 1>>, <<1, -1>> >>

\* WalkLine with the test on the cell weakened from "is player's" to "is not
\* Empty": the walk runs on over the other player's stones.
RECURSIVE WalkLine_AnyStone(_, _, _, _, _, _)
WalkLine_AnyStone(grid, r, c, sr, sc, player) ==
    IF r >= 0 /\ r < BOARD_SIZE /\ c >= 0 /\ c < BOARD_SIZE /\ grid[r][c] # PlayerNone
    THEN <<Cell(r, c)>> \o WalkLine_AnyStone(grid, r + sr, c + sc, sr, sc, player)
    ELSE <<>>

\* One while loop of checkWin: from (r, c), stepping by (sr, sc), the cells
\* pushed until the walk leaves the grid or meets a cell that is not player's.
RECURSIVE WalkLine(_, _, _, _, _, _)
WalkLine(grid, r, c, sr, sc, player) ==
    IF r >= 0 /\ r < BOARD_SIZE /\ c >= 0 /\ c < BOARD_SIZE /\ grid[r][c] = player
    THEN <<Cell(r, c)>> \o WalkLine(grid, r + sr, c + sc, sr, sc, player)
    ELSE <<>>

\* DirectionLine without the second while loop, the walk against the
\* direction.
DirectionLine_ForwardOnly(grid, lastRow, lastCol, player, d) ==
    LET dx == directions[d][1]
        dy == directions[d][2]
    IN  <<Cell(lastRow, lastCol)>>
        \o WalkLine(grid, lastRow + dx, lastCol + dy, dx, dy, player)

\* The body of the for loop: the line built for direction number d.
DirectionLine(grid, lastRow, lastCol, player, d) ==
    LET dx == directions[d][1]
        dy == directions[d][2]
    IN  <<Cell(lastRow, lastCol)>>
        \o WalkLine(grid, lastRow + dx, lastCol + dy, dx, dy, player)
        \o WalkLine(grid, lastRow - dx, lastCol - dy, 0 - dx, 0 - dy, player)

\* LineWins with >= replaced by >.
LineWins_Strict(line) == Len(line) > WIN_COUNT

\* The length test that ends the for loop.
LineWins(line) == Len(line) >= WIN_COUNT

\* CheckWinFrom taking the directions in the reverse of the source's order.
RECURSIVE CheckWinFrom_Backward(_, _, _, _, _)
CheckWinFrom_Backward(grid, lastRow, lastCol, player, d) ==
    IF d > Len(directions) THEN NoLine
    ELSE LET line == DirectionLine(grid, lastRow, lastCol, player,
                                   Len(directions) + 1 - d)
         IN  IF LineWins(line) THEN line
             ELSE CheckWinFrom_Backward(grid, lastRow, lastCol, player, d + 1)

\* The for loop over directions, from direction number d on: the first line
\* that passes the length test is returned, null when none does.
RECURSIVE CheckWinFrom(_, _, _, _, _)
CheckWinFrom(grid, lastRow, lastCol, player, d) ==
    IF d > Len(directions) THEN NoLine
    ELSE LET line == DirectionLine(grid, lastRow, lastCol, player, d)
         IN  IF LineWins(line) THEN line
             ELSE CheckWinFrom(grid, lastRow, lastCol, player, d + 1)

checkWin(grid, lastRow, lastCol, player) ==
    CheckWinFrom(grid, lastRow, lastCol, player, 1)

----------------------------------------------------------------------------
(* serializeBoard / deserializeBoard (services/gameLogic.ts)               *)

\* Number.prototype.toString for a non-negative integer: its decimal digits.
DigitChars == <<"0", "1", "2", "3", "4", "5", "6", "7", "8", "9">>

RECURSIVE NumberToString(_)
NumberToString(n) ==
    IF n < 10 THEN <<DigitChars[n + 1]>>
    ELSE NumberToString(n \div 10) \o <<DigitChars[(n % 10) + 1]>>

\* A row of the grid as a JavaScript array.
RowArray(row) == [i \in 1 .. BOARD_SIZE |-> row[i - 1]]

\* FlatFrom reading the grid column by column.
RECURSIVE FlatFrom_ByColumn(_, _)
FlatFrom_ByColumn(grid, r) ==
    IF r >= BOARD_SIZE THEN <<>>
    ELSE [i \in 1 .. BOARD_SIZE |-> grid[i - 1][r]] \o FlatFrom_ByColumn(grid, r + 1)

\* Array.prototype.flat: the rows one after the other.
RECURSIVE FlatFrom(_, _)
FlatFrom(grid, r) ==
    IF r >= BOARD_SIZE THEN <<>>
    ELSE RowArray(grid[r]) \o FlatFrom(grid, r + 1)

\* Array.prototype.join(sep), sep a string.
RECURSIVE Join(_, _)
Join(arr, sep) ==
    IF Len(arr) = 0 THEN <<>>
    ELSE IF Len(arr) = 1 THEN NumberToString(arr[1])
    ELSE NumberToString(arr[1]) \o sep \o Join(Tail(arr), sep)

\* serializeBoard with join() in place of join(''): the separator is ",".
serializeBoard_Comma(grid) == Join(FlatFrom(grid, 0), <<",">>)

serializeBoard(grid) == Join(FlatFrom(grid, 0), <<>>)

\* NaN (parseInt of a non-digit) and undefined (a string indexed past its end).
NaN == -1
Undefined == "undefined"

\* str[idx], idx counted from 0.
CharAt(str, idx) == IF idx >= 0 /\ idx < Len(str) THEN str[idx + 1] ELSE Undefined

\* parseInt of one UTF-16 code unit, or of undefined.
parseInt(ch) ==
    IF \E i \in 1 .. 10 : DigitChars[i] = ch
    THEN (CHOOSE i \in 1 .. 10 : DigitChars[i] = ch) - 1
    ELSE NaN

\* DecodeCell storing the parsed number itself when it is a number.
DecodeCell_Unchecked(val) == IF val = NaN THEN PlayerNone ELSE val

\* The if / else-if / else of the inner loop.
DecodeCell(val) ==
    IF val = 1 THEN PlayerBlack
    ELSE IF val = 2 THEN PlayerWhite
    ELSE PlayerNone

\* The two nested loops: idx runs through 0 .. BOARD_SIZE*BOARD_SIZE - 1 in
\* row-major order, so cell (r, c) reads str[r * BOARD_SIZE + c].
DecodeLoops(str) ==
    [r \in Coord |-> [c \in Coord |->
        DecodeCell(parseInt(CharAt(str, r * BOARD_SIZE + c)))]]

\* deserializeBoard without the length test.
deserializeBoard_NoLengthTest(str) == DecodeLoops(str)

deserializeBoard(str) ==
    IF Len(str) # BOARD_SIZE * BOARD_SIZE THEN createEmptyGrid
    ELSE DecodeLoops(str)

----------------------------------------------------------------------------
(* The move evaluator (services/geminiService.ts).  In getRandomMove,      *)
(* Math.random() is a draw u from RandomDraws, standing for the number     *)
(* u / RandomDen of [0, 1), and the operator takes its draw as a           *)
(* parameter.  In getMediumMove the draws enter through the least and the  *)
(* greatest double that score + randomFactor can be.  The getXxxMove       *)
(* operators that end in "Moves" give the set of the coordinates the       *)
(* function can return over all draws.                                     *)

\* BOARD_SIZE * BOARD_SIZE draws: Math.floor(Math.random() * n) then takes
\* every value of 0 .. n-1 for every array length n the evaluator meets.
RandomDen == BOARD_SIZE * BOARD_SIZE
RandomDraws == 0 .. (RandomDen - 1)

\* Math.floor(Math.random() * n)
RandomIndex(u, n) == (u * n) \div RandomDen

\* The cells in the order of the two nested for loops (row-major).
CellAt(i) == Cell(i \div BOARD_SIZE, i % BOARD_SIZE)
CellOrder == [i \in 1 .. (BOARD_SIZE * BOARD_SIZE) |-> CellAt(i - 1)]

\* hasNeighbor looking at the four orthogonal neighbours only.
hasNeighbor_Orthogonal(grid, r, c) ==
    \E dr \in -1 .. 1, dc \in -1 .. 1 :
        /\ (dr = 0) # (dc = 0)
        /\ r + dr >= 0 /\ r + dr < BOARD_SIZE /\ c + dc >= 0 /\ c + dc < BOARD_SIZE
        /\ grid[r + dr][c + dc] # PlayerNone

hasNeighbor(grid, r, c) ==
    \E dr \in -1 .. 1, dc \in -1 .. 1 :
        /\ ~(dr = 0 /\ dc = 0)
        /\ r + dr >= 0 /\ r + dr < BOARD_SIZE /\ c + dc >= 0 /\ c + dc < BOARD_SIZE
        /\ grid[r + dr][c + dc] # PlayerNone

\* availableMoves of getRandomMove: the Empty cells in row-major order
\* (SelectSeq is Array.prototype.filter).
availableMoves(grid) ==
    LET isEmpty(m) == grid[m.row][m.col] = PlayerNone
    IN  SelectSeq(CellOrder, isEmpty)

\* getRandomMove; u is the draw of the one Math.random() call it makes.
getRandomMove(grid, u) ==
    LET avail == availableMoves(grid)
        near(m) == hasNeighbor(grid, m.row, m.col)
        smartRandom == SelectSeq(avail, near)
    IN  IF Len(avail) = 0 THEN Cell(0, 0)
        ELSE IF Len(smartRandom) > 0
             THEN smartRandom[RandomIndex(u, Len(smartRandom)) + 1]
             ELSE avail[RandomIndex(u, Len(avail)) + 1]

getRandomMoves(grid) == { getRandomMove(grid, u) : u \in RandomDraws }

\* One while (true) loop of getLineScore from step i on: [count, openEnds]
\* added by the walk from (r, c) in steps of (sr, sc).
RECURSIVE ScoreWalk(_, _, _, _, _, _, _)
ScoreWalk(grid, r, c, sr, sc, player, i) ==
    LET nr == r + sr * i
        nc == c + sc * i
    IN  IF nr < 0 \/ nr >= BOARD_SIZE \/ nc < 0 \/ nc >= BOARD_SIZE
        THEN [count |-> 0, openEnds |-> 0]
        ELSE IF grid[nr][nc] = player
        THEN LET rest == ScoreWalk(grid, r, c, sr, sc, player, i + 1)
             IN  [count |-> rest.count + 1, openEnds |-> rest.openEnds]
        ELSE IF grid[nr][nc] = PlayerNone
        THEN [count |-> 0, openEnds |-> 1]
        ELSE [count |-> 0, openEnds |-> 0]

\* The scoring weights at the end of getLineScore.
LineWeight(count, openEnds) ==
    IF count >= 4 THEN 100000
    ELSE IF count = 3 /\ openEnds > 0 THEN 5000
    ELSE IF count = 2 /\ openEnds = 2 THEN 1000
    ELSE IF count = 2 /\ openEnds > 0 THEN 100
    ELSE IF count = 1 /\ openEnds = 2 THEN 50
    ELSE 10

getLineScore(grid, r, c, dr, dc, player) ==
    LET fwd == ScoreWalk(grid, r, c, dr, dc, player, 1)
        bwd == ScoreWalk(grid, r, c, 0 - dr, 0 - dc, player, 1)
    IN  LineWeight(fwd.count + bwd.count, fwd.openEnds + bwd.openEnds)

Abs(x) == IF x < 0 THEN 0 - x ELSE x

\* A score is a JavaScript number, an IEEE 754 double.  [whole, frac] is the
\* double whole + frac / 2^47: every number the evaluator meets is a whole
\* number plus a multiple of 2^-47 below 1.
Double(whole, frac) == [whole |-> whole, frac |-> frac]

\* The spacing of the doubles from whole up to the next power of two, in
\* units of 2^-47: one unit from 32 to 64, and twice as much with every
\* power of two above, up to 2^20, which no score reaches.  Below 32 the
\* evaluator meets whole numbers only.
Ulp(whole) == 2 ^ Cardinality({ e \in 6 .. 19 : whole >= 2 ^ e })

\* The double nearest to whole + frac / 2^47, ties to the even mantissa.
\* A whole number of this size is a double.
RoundDouble(whole, frac) ==
    IF frac = 0 THEN Double(whole, 0)
    ELSE LET ulp == Ulp(whole)
             q == frac \div ulp
             r == frac % ulp
             up == 2 * r > ulp \/ (2 * r = ulp /\ q % 2 = 1)
         IN  Double(whole, (IF up THEN q + 1 ELSE q) * ulp)

\* a + b of two doubles.
DoubleAdd(a, b) == RoundDouble(a.whole + b.whole, a.frac + b.frac)

\* a > b of two doubles.
DoubleGreater(a, b) ==
    a.whole > b.whole \/ (a.whole = b.whole /\ a.frac > b.frac)

\* x * 1.1 for a line score x: 1.1 is not a double, and the product is
\* rounded.  It is 11 x / 10 for 10, 1000 and 5000, and one double above
\* it for 50 (55 + 2^-47), 100 (110 + 2^-46) and 100000 (110000 + 2^-36).
TimesDefenceWeight(x) ==
    Double((11 * x) \div 10,
           IF x = 100000 THEN 2048 ELSE IF x = 100 THEN 2 ELSE IF x = 50 THEN 1 ELSE 0)

\* The loop of evaluatePosition without the defence term.
RECURSIVE EvaluateFrom_OffenceOnly(_, _, _, _, _, _, _)
EvaluateFrom_OffenceOnly(grid, r, c, me, opp, d, score) ==
    IF d > Len(directions) THEN score
    ELSE LET mine == getLineScore(grid, r, c, directions[d][1], directions[d][2], me)
         IN  EvaluateFrom_OffenceOnly(grid, r, c, me, opp, d + 1,
                                      DoubleAdd(score, Double(mine, 0)))

\* The loop of evaluatePosition from direction number d on, score being the
\* sum so far: two additions for each direction, in the source's order.
RECURSIVE EvaluateFrom(_, _, _, _, _, _, _)
EvaluateFrom(grid, r, c, me, opp, d, score) ==
    IF d > Len(directions) THEN score
    ELSE LET mine == getLineScore(grid, r, c, directions[d][1], directions[d][2], me)
             theirs == getLineScore(grid, r, c, directions[d][1], directions[d][2], opp)
             withMine == DoubleAdd(score, Double(mine, 0))
         IN  EvaluateFrom(grid, r, c, me, opp, d + 1,
                          DoubleAdd(withMine, TimesDefenceWeight(theirs)))

evaluatePosition(grid, r, c, me, opp) ==
    LET center == BOARD_SIZE \div 2
        dist == Abs(r - center) + Abs(c - center)
    IN  DoubleAdd(EvaluateFrom(grid, r, c, me, opp, 1, Double(0, 0)),
                  Double(0 - dist, 0))

\* The smallest and the largest value score + randomFactor can take.
\* Math.random() is 0 at the least, which gives score.  At the most it is
\* the last double below 1; randomFactor is then the last double below 5,
\* and its sum with a score of 16 or more rounds to the double of score + 5.
\* A cell that can end as bestMove under some draws does so with the
\* largest value for itself and the smallest for every other cell.
PerturbedScores(score) == { score, DoubleAdd(score, Double(5, 0)) }

\* bestScore and bestMove of getMediumMove; found is FALSE while they are
\* -Infinity and null.
MediumStart == [found |-> FALSE, score |-> Double(0, 0), move |-> Cell(0, 0)]

\* The if (score + randomFactor > bestScore) of the inner loop, for the
\* Empty cell x with value v = score + randomFactor.
MediumBetter(best, x, v) ==
    IF ~best.found \/ DoubleGreater(v, best.score)
    THEN [found |-> TRUE, score |-> v, move |-> x]
    ELSE best

\* The two nested for loops from the i-th cell on; S is the set of the
\* (bestScore, bestMove) pairs possible so far, over all draws.  S is never
\* empty: the test of it has S computed before the scan goes on.
RECURSIVE MediumScan(_, _, _, _, _)
MediumScan(grid, aiPlayer, opponent, i, S) ==
    IF S = {} \/ i > Len(CellOrder) THEN S
    ELSE LET x == CellOrder[i]
         IN  IF grid[x.row][x.col] # PlayerNone
             THEN MediumScan(grid, aiPlayer, opponent, i + 1, S)
             ELSE LET score == evaluatePosition(grid, x.row, x.col, aiPlayer, opponent)
                      values == PerturbedScores(score)
                  IN  MediumScan(grid, aiPlayer, opponent, i + 1,
                        { MediumBetter(best, x, v) : best \in S, v \in values })

\* getMediumMove: the coordinates it can return, over all draws.
getMediumMoves(grid, aiPlayer) ==
    LET opponent == IF aiPlayer = PlayerBlack THEN PlayerWhite ELSE PlayerBlack
        ends == MediumScan(grid, aiPlayer, opponent, 1, {MediumStart})
    IN  UNION { IF best.found THEN {best.move} ELSE getRandomMoves(grid) : best \in ends }

\* What the oracle call of getHardMove yields: kind "error" when
\* generateContent rejects or JSON.parse throws, else kind "value" with the
\* parsed JSON value: truthy or not, and its row and col fields.  A field is
\* [type, twice]: type "number" with value twice / 2, or another type.
JsonNumber(twice) == [type |-> "number", twice |-> twice]
JsonOther(type) == [type |-> type, twice |-> 0]
OracleError == [kind |-> "error", truthy |-> FALSE,
                row |-> JsonOther("undefined"), col |-> JsonOther("undefined")]
OracleValue(truthy, row, col) ==
    [kind |-> "value", truthy |-> truthy, row |-> row, col |-> col]

\* The validation of lines 452-461 without the test that the cell is Empty.
OracleAccepted_NoEmptyTest(grid, result) ==
    /\ result.truthy
    /\ result.row.type = "number" /\ result.col.type = "number"
    /\ result.row.twice >= 0 /\ result.row.twice < 2 * BOARD_SIZE
    /\ result.col.twice >= 0 /\ result.col.twice < 2 * BOARD_SIZE
    /\ result.row.twice % 2 = 0
    /\ result.col.twice % 2 = 0

\* The validation of lines 452-461: TRUE when result's coordinates are
\* returned.  grid[result.row] is undefined for a row that is not an integer
\* (the TypeError is caught), and grid[row][result.col] is undefined, so not
\* Player.None, for a col that is not an integer.
OracleAccepted(grid, result) ==
    /\ result.truthy
    /\ result.row.type = "number" /\ result.col.type = "number"
    /\ result.row.twice >= 0 /\ result.row.twice < 2 * BOARD_SIZE
    /\ result.col.twice >= 0 /\ result.col.twice < 2 * BOARD_SIZE
    /\ result.row.twice % 2 = 0
    /\ result.col.twice % 2 = 0
    /\ grid[result.row.twice \div 2][result.col.twice \div 2] = PlayerNone

\* getHardMove with a catch block that falls back to getRandomMove.
getHardMoves_CatchRandom(key, grid, aiPlayer, oracle) ==
    IF key = "" THEN getMediumMoves(grid, aiPlayer)
    ELSE IF oracle.kind = "error" THEN getRandomMoves(grid)
    ELSE IF OracleAccepted(grid, oracle)
         THEN { Cell(oracle.row.twice \div 2, oracle.col.twice \div 2) }
         ELSE getMediumMoves(grid, aiPlayer)

\* getHardMove falling back to getRandomMove when there is no API key.
getHardMoves_NoKeyRandom(key, grid, aiPlayer, oracle) ==
    IF key = "" THEN getRandomMoves(grid)
    ELSE IF oracle.kind = "error" THEN getMediumMoves(grid, aiPlayer)
    ELSE IF OracleAccepted(grid, oracle)
         THEN { Cell(oracle.row.twice \div 2, oracle.col.twice \div 2) }
         ELSE getMediumMoves(grid, aiPlayer)

\* getHardMove: the coordinates it can return when the oracle yields oracle.
getHardMoves(key, grid, aiPlayer, oracle) ==
    IF key = "" THEN getMediumMoves(grid, aiPlayer)
    ELSE IF oracle.kind = "error" THEN getMediumMoves(grid, aiPlayer)
    ELSE IF OracleAccepted(grid, oracle)
         THEN { Cell(oracle.row.twice \div 2, oracle.col.twice \div 2) }
         ELSE getMediumMoves(grid, aiPlayer)

\* getBestMove: the coordinates it can return.
getBestMoves(key, grid, aiPlayer, level, oracle) ==
    IF level = "EASY" THEN getRandomMoves(grid)
    ELSE IF level = "MEDIUM" THEN getMediumMoves(grid, aiPlayer)
    ELSE getHardMoves(key, grid, aiPlayer, oracle)

----------------------------------------------------------------------------
(* Input boards.  A line board has all its stones on one row, column or    *)
(* diagonal, in any pattern of Empty / Black / White.  A cross board has   *)
(* two runs of one player through a common cell, each ShortRun..WIN_COUNT  *)
(* long, along two different directions.                                   *)

\* The cells of the grid on the straight line through (r0, c0) along d.
LineThrough(r0, c0, d) ==
    { x \in Cells :
        \E k \in (1 - BOARD_SIZE) .. (BOARD_SIZE - 1) :
            /\ x.row = r0 + k * directions[d][1]
            /\ x.col = c0 + k * directions[d][2] }

GridOf(stoneAt) ==
    [r \in Coord |-> [c \in Coord |->
        IF Cell(r, c) \in DOMAIN stoneAt THEN stoneAt[Cell(r, c)] ELSE PlayerNone]]

LineBoards ==
    { GridOf(pat) :
        pat \in UNION { [LineThrough(x.row, x.col, d) -> Player] :
                            x \in Cells, d \in 1 .. 4 } }

\* len consecutive cells along d, the (off+1)-th of which is (r0, c0).
Window(r0, c0, d, off, len) ==
    { [row |-> r0 + (k - off) * directions[d][1],
       col |-> c0 + (k - off) * directions[d][2]] : k \in 0 .. (len - 1) }

ShortRun == WIN_COUNT - 1

\* The pairs of runs through a common cell that fit in the grid.
CrossShapes ==
    { sh \in [x : Cells, d1 : 1 .. 4, d2 : 1 .. 4,
              l1 : ShortRun .. WIN_COUNT, l2 : ShortRun .. WIN_COUNT,
              o1 : 0 .. (WIN_COUNT - 1), o2 : 0 .. (WIN_COUNT - 1)] :
        /\ sh.d1 < sh.d2
        /\ sh.o1 < sh.l1
        /\ sh.o2 < sh.l2
        /\ \A y \in Window(sh.x.row, sh.x.col, sh.d1, sh.o1, sh.l1) : InRange(y.row, y.col)
        /\ \A y \in Window(sh.x.row, sh.x.col, sh.d2, sh.o2, sh.l2) : InRange(y.row, y.col) }

CrossBoards ==
    { GridOf([y \in Window(sh.x.row, sh.x.col, sh.d1, sh.o1, sh.l1)
                    \cup Window(sh.x.row, sh.x.col, sh.d2, sh.o2, sh.l2) |-> p]) :
        sh \in CrossShapes, p \in Stones }

\* The line boards whose line passes through the top left corner or through
\* the cell below the top right corner.
CornerLineBoards ==
    { GridOf(pat) :
        pat \in UNION { [LineThrough(x.row, x.col, d) -> Player] :
                            x \in { Cell(0, 0), Cell(1, BOARD_SIZE - 1) },
                            d \in 1 .. 4 } }

----------------------------------------------------------------------------
(* SpecWin: checkWin applied to a just-played cell of an input board.      *)

NoCall == [row |-> -1, col |-> -1, player |-> PlayerNone]

\* The variables of the parts a specification does not exercise stay idle.
WinIdle == wGrid = createEmptyGrid /\ wCall = NoCall /\ wResult = NoLine
CodecIdle ==
    /\ cFrom = "none"
    /\ cBoard = createEmptyGrid
    /\ cToken = <<>>
    /\ cOut = createEmptyGrid
    /\ cpc = "idle"

NoAICall == [apiKey |-> "", aiPlayer |-> PlayerNone, difficulty |-> "NONE",
             oracle |-> OracleError]
AIIdle ==
    /\ aGrid = createEmptyGrid
    /\ aCall = NoAICall
    /\ aPossible = {}

\* null, as the value of boardState.winner
NoWinner == -1

NoTask == [phase |-> "none", grid |-> createEmptyGrid, history |-> <<>>,
           apiKey |-> "", difficulty |-> "NONE"]
NoOp == [op |-> "none", outcome |-> "none",
         inputBefore |-> createEmptyGrid, inputAfter |-> createEmptyGrid]

\* useState's initial boardState, which is also what resetGame sets.
InitialBoardState ==
    [grid |-> createEmptyGrid, currentPlayer |-> PlayerBlack, winner |-> NoWinner,
     history |-> <<>>, winningLine |-> NoLine]

SessionIdle ==
    /\ boardState = InitialBoardState
    /\ gameMode = "LOCAL"
    /\ difficulty = "MEDIUM"
    /\ apiKey = ""
    /\ isThinking = FALSE
    /\ aiTask = NoTask
    /\ lastOp = NoOp
    /\ hash = <<>>

WinInit ==
    /\ wGrid \in LineBoards \cup CrossBoards
    /\ wCall = NoCall
    /\ wResult = NoLine
    /\ CodecIdle /\ AIIdle /\ SessionIdle

\* checkWin is called with the cell just played, which holds player's stone.
CallCheckWin(r, c, p) ==
    /\ wCall = NoCall
    /\ wGrid[r][c] = p
    /\ wCall' = [row |-> r, col |-> c, player |-> p]
    /\ wResult' = checkWin(wGrid, r, c, p)
    /\ UNCHANGED <<wGrid, codecVars, aiVars, sessionVars>>

WinNext == \E r \in Coord, c \in Coord, p \in Stones : CallCheckWin(r, c, p)

SpecWin == WinInit /\ [][WinNext]_vars

\* How far p's stones extend from (r, c) in steps of (sr, sc), not counting
\* (r, c): the largest k such that the k cells after (r, c) are all in the
\* grid and all p's.
Extent(grid, r, c, sr, sc, p) ==
    LET ok(k) == \A j \in 1 .. k :
                    /\ InRange(r + j * sr, c + j * sc)
                    /\ grid[r + j * sr][c + j * sc] = p
    IN  CHOOSE k \in 0 .. BOARD_SIZE : ok(k) /\ ~ok(k + 1)

\* Length of the maximal contiguous run of p's stones through (r, c) along d.
MaxRun(grid, r, c, d, p) ==
    1 + Extent(grid, r, c, directions[d][1], directions[d][2], p)
      + Extent(grid, r, c, 0 - directions[d][1], 0 - directions[d][2], p)

LineCellSet(line) == { line[i] : i \in 1 .. Len(line) }

\* The cells from a steps behind (r, c) to b steps ahead of it along d.
Segment(r, c, d, a, b) ==
    { [row |-> r + k * directions[d][1], col |-> c + k * directions[d][2]] :
        k \in (0 - a) .. b }

IsSegmentAlong(S, r, c, d) ==
    \E a \in 0 .. BOARD_SIZE, b \in 0 .. BOARD_SIZE : S = Segment(r, c, d, a, b)

\* C1: for a just-played cell holding p's stone, checkWin returns a line
\* exactly when, along at least one of the four directions, the maximal
\* contiguous run of p's stones through the cell is WIN_COUNT or longer.
C1_WinIffRun ==
    wCall # NoCall =>
        ( wResult # NoLine
          <=> \E d \in 1 .. 4 :
                 MaxRun(wGrid, wCall.row, wCall.col, d, wCall.player) >= WIN_COUNT )

\* A run of exactly WIN_COUNT, entered at a cell that is not one of its ends,
\* was detected.
C1_Witness ==
    /\ wCall # NoCall
    /\ wResult # NoLine
    /\ \E d \in 1 .. 4 :
          /\ MaxRun(wGrid, wCall.row, wCall.col, d, wCall.player) = WIN_COUNT
          /\ Extent(wGrid, wCall.row, wCall.col,
                    directions[d][1], directions[d][2], wCall.player) > 0
          /\ Extent(wGrid, wCall.row, wCall.col,
                    0 - directions[d][1], 0 - directions[d][2], wCall.player) > 0
          /\ \A e \in (1 .. 4) \ {d} :
                MaxRun(wGrid, wCall.row, wCall.col, e, wCall.player) < WIN_COUNT

\* C2: a returned line contains the just-played cell, has WIN_COUNT or more
\* pairwise distinct cells, all inside the grid and all holding the player's
\* stone, and its cells form one gap-free segment along exactly one of the
\* four directions.
C2_LineWellFormed ==
    wResult # NoLine =>
        /\ Cell(wCall.row, wCall.col) \in LineCellSet(wResult)
        /\ Len(wResult) >= WIN_COUNT
        /\ Cardinality(LineCellSet(wResult)) = Len(wResult)
        /\ \A i \in 1 .. Len(wResult) :
              /\ InRange(wResult[i].row, wResult[i].col)
              /\ wGrid[wResult[i].row][wResult[i].col] = wCall.player
        /\ Cardinality({ d \in 1 .. 4 :
              IsSegmentAlong(LineCellSet(wResult), wCall.row, wCall.col, d) }) = 1

\* A line was returned for a cell through which two directions both hold a
\* run of WIN_COUNT.
C2_Witness ==
    /\ wResult # NoLine
    /\ Cardinality({ d \in 1 .. 4 :
          MaxRun(wGrid, wCall.row, wCall.col, d, wCall.player) >= WIN_COUNT }) >= 2

\* The directions along which the run of the call's player through the
\* just-played cell is WIN_COUNT or longer.
WinningDirections ==
    { d \in 1 .. 4 : MaxRun(wGrid, wCall.row, wCall.col, d, wCall.player) >= WIN_COUNT }

\* The cells of the maximal run of p's stones through (r, c) along d.
RunCells(grid, r, c, d, p) ==
    Segment(r, c, d,
            Extent(grid, r, c, 0 - directions[d][1], 0 - directions[d][2], p),
            Extent(grid, r, c, directions[d][1], directions[d][2], p))

\* Some player has WIN_COUNT or more stones in a row somewhere on the grid.
HasRun(grid) ==
    \E x \in Cells, d \in 1 .. 4 :
        /\ grid[x.row][x.col] # PlayerNone
        /\ MaxRun(grid, x.row, x.col, d, grid[x.row][x.col]) >= WIN_COUNT

\* The board as it was before the just-played stone.
BoardBeforeCall == [wGrid EXCEPT ![wCall.row][wCall.col] = PlayerNone]

\* C19 as stated: after a move onto a board without a run of WIN_COUNT, at
\* most one direction through the just-played cell has a run of WIN_COUNT
\* or longer.
C19_AtMostOneDirection ==
    wCall # NoCall =>
        \/ Cardinality(WinningDirections) <= 1
        \/ HasRun(BoardBeforeCall)

\* C19, amended: after a move onto a board without a run of WIN_COUNT,
\* whenever one or more directions through the just-played cell have a run
\* of WIN_COUNT or longer, checkWin reports the cells of the run along the
\* first of them in the order horizontal, vertical, diagonal, anti-diagonal.
C19_FirstDirectionReported ==
    (wCall # NoCall /\ WinningDirections # {} /\ ~HasRun(BoardBeforeCall)) =>
        \E d \in WinningDirections :
            /\ \A e \in WinningDirections : d <= e
            /\ LineCellSet(wResult)
                 = RunCells(wGrid, wCall.row, wCall.col, d, wCall.player)

\* A move onto a board without a run completed runs along two directions;
\* the line reported is the first direction's and not the second's.
C19_Witness ==
    /\ wCall # NoCall
    /\ Cardinality(WinningDirections) >= 2
    /\ ~HasRun(BoardBeforeCall)
    /\ \E d \in WinningDirections, e \in WinningDirections :
          /\ d < e
          /\ LineCellSet(wResult)
               = RunCells(wGrid, wCall.row, wCall.col, d, wCall.player)
          /\ LineCellSet(wResult)
               # RunCells(wGrid, wCall.row, wCall.col, e, wCall.player)

----------------------------------------------------------------------------
(* SpecCodec: serializeBoard applied to an input board and deserializeBoard *)
(* applied to its result, or deserializeBoard applied to an input string.   *)

\* Characters of input strings: the three cell digits, another digit, a
\* letter and a symbol.
InputChars == {"0", "1", "2", "3", "a", "-"}

\* Most characters changed in an input string that is "0" everywhere else.
MaxMarks == 1

\* Most characters an over-length input string has beyond the full length.
MaxExtra == 1

TokenLen == BOARD_SIZE * BOARD_SIZE

\* Full-length strings: "0" everywhere but at up to k positions, none of
\* them before position lo.
RECURSIVE MarkedFrom(_, _)
MarkedFrom(k, lo) ==
    IF k = 0 THEN { [i \in 1 .. TokenLen |-> "0"] }
    ELSE { [i \in 1 .. TokenLen |-> "0"] }
         \cup UNION { { [str EXCEPT ![i] = ch] :
                          str \in MarkedFrom(k - 1, i + 1), ch \in InputChars \ {"0"} } :
                      i \in lo .. TokenLen }

MarkedStrings(k) == MarkedFrom(k, 1)

\* Full-length strings: the digits of a cross board, with every "0" replaced
\* by one other character that is no stone digit.
RecodedStrings ==
    { [i \in 1 .. TokenLen |->
          LET v == b[(i - 1) \div BOARD_SIZE][(i - 1) % BOARD_SIZE]
          IN  IF v = PlayerNone THEN e ELSE DigitChars[v + 1]] :
        b \in CrossBoards, e \in InputChars \ {"0", "1", "2"} }

\* Strings of any other length: a string that is "0" everywhere but at one
\* position, cut short or followed by up to MaxExtra more characters.
RECURSIVE CharSeqs(_)
CharSeqs(n) ==
    IF n = 0 THEN { <<>> }
    ELSE { Append(q, ch) : q \in CharSeqs(n - 1), ch \in InputChars }

WrongLengthStrings ==
    { SubSeq(str, 1, n) : str \in MarkedStrings(1), n \in 0 .. (TokenLen - 1) }
    \cup
    { str \o ext : str \in MarkedStrings(1),
                   ext \in UNION { CharSeqs(n) : n \in 1 .. MaxExtra } }

CodecInit ==
    /\ \/ /\ cFrom = "board"
          /\ (cBoard \in CornerLineBoards \/ cBoard \in CrossBoards)
          /\ cToken = <<>>
          /\ cpc = "board"
       \/ /\ cFrom = "string"
          /\ cBoard = createEmptyGrid
          /\ \/ cToken \in MarkedStrings(MaxMarks)
             \/ cToken \in RecodedStrings
             \/ cToken \in WrongLengthStrings
          /\ cpc = "token"
    /\ cOut = createEmptyGrid
    /\ WinIdle /\ AIIdle /\ SessionIdle

Serialize ==
    /\ cpc = "board"
    /\ cToken' = serializeBoard(cBoard)
    /\ cpc' = "token"
    /\ UNCHANGED <<cFrom, cBoard, cOut, winVars, aiVars, sessionVars>>

Deserialize ==
    /\ cpc = "token"
    /\ cOut' = deserializeBoard(cToken)
    /\ cpc' = "decoded"
    /\ UNCHANGED <<cFrom, cBoard, cToken, winVars, aiVars, sessionVars>>

CodecNext == Serialize \/ Deserialize

SpecCodec == CodecInit /\ [][CodecNext]_vars

\* An N x N grid with every cell Empty, written out.
AllEmpty(grid) ==
    /\ DOMAIN grid = Coord
    /\ \A r \in Coord : DOMAIN grid[r] = Coord /\ \A c \in Coord : grid[r][c] = PlayerNone

StoneCount(grid, p) == Cardinality({ x \in Cells : grid[x.row][x.col] = p })

\* C3: deserializeBoard(serializeBoard(board)) is the board, cell for cell.
C3_RoundTrip ==
    (cFrom = "board" /\ cpc = "decoded") =>
        \A r \in Coord, c \in Coord : cOut[r][c] = cBoard[r][c]

\* A board holding stones of both players went through the round trip.
C3_Witness ==
    /\ cFrom = "board"
    /\ cpc = "decoded"
    /\ StoneCount(cBoard, PlayerBlack) >= 2
    /\ StoneCount(cBoard, PlayerWhite) >= 2

\* C4: for an input string whose length is not N*N, deserializeBoard returns
\* an N x N grid with every cell Empty.
C4_WrongLengthGivesEmpty ==
    (cFrom = "string" /\ cpc = "decoded" /\ Len(cToken) # TokenLen) => AllEmpty(cOut)

\* A string one character short that carries a stone digit was decoded.
C4_Witness ==
    /\ cFrom = "string"
    /\ cpc = "decoded"
    /\ Len(cToken) = TokenLen - 1
    /\ \E i \in 1 .. Len(cToken) : cToken[i] \in {"1", "2"}

\* C5: for an input string of length N*N, cell (r, c) of the result is Black
\* iff character r*N+c is "1", White iff it is "2", and Empty otherwise.
C5_DecodeByCharacter ==
    (cFrom = "string" /\ cpc = "decoded" /\ Len(cToken) = TokenLen) =>
        \A r \in Coord, c \in Coord :
            LET ch == cToken[r * BOARD_SIZE + c + 1]
            IN  /\ cOut[r][c] = PlayerBlack <=> ch = "1"
                /\ cOut[r][c] = PlayerWhite <=> ch = "2"
                /\ cOut[r][c] = PlayerNone <=> ch \notin {"1", "2"}

\* A full-length string with a stone digit and a character that is no cell
\* digit was decoded.
C5_Witness ==
    /\ cFrom = "string"
    /\ cpc = "decoded"
    /\ Len(cToken) = TokenLen
    /\ \E i \in 1 .. TokenLen : cToken[i] = "2"
    /\ \E i \in 1 .. TokenLen : cToken[i] \in {"3", "a", "-"}

\* C6: serializeBoard returns a string of length N*N whose character at
\* index r*N+c is the digit 0, 1 or 2 of cell (r, c).
C6_SerializeRowMajor ==
    (cFrom = "board" /\ cpc \in {"token", "decoded"}) =>
        /\ Len(cToken) = TokenLen
        /\ \A r \in Coord, c \in Coord :
              cToken[r * BOARD_SIZE + c + 1] = <<"0", "1", "2">>[cBoard[r][c] + 1]

\* A board with a Black and a White stone off the main diagonal was serialized.
C6_Witness ==
    /\ cFrom = "board"
    /\ cpc = "token"
    /\ \E r \in Coord, c \in Coord : r # c /\ cBoard[r][c] = PlayerBlack
    /\ \E r \in Coord, c \in Coord : r # c /\ cBoard[r][c] = PlayerWhite

----------------------------------------------------------------------------
(* SpecAI: getBestMove applied to an input board, for every tier, acting   *)
(* player, API key and oracle outcome.                                     *)

\* Most stones of a sparse input board, and most Empty cells of a dense one.
MaxSparse == 2
MaxHoles == 1

SetCell(grid, x, v) == [grid EXCEPT ![x.row][x.col] = v]

\* Where the stones of a sparse board go: a corner and its two neighbours,
\* the centre, and the opposite corner.
StoneSites ==
    { Cell(0, 0), Cell(0, 1), Cell(1, 1), Cell(BOARD_SIZE \div 2, BOARD_SIZE \div 2),
      Cell(BOARD_SIZE - 1, BOARD_SIZE - 1) }

RECURSIVE SparseBoards(_)
SparseBoards(k) ==
    IF k = 0 THEN { createEmptyGrid }
    ELSE { SetCell(b, x, p) : b \in SparseBoards(k - 1), x \in StoneSites, p \in Player }

\* Two full boards: stones alternating cell by cell, and in pairs of rows.
FullBoards ==
    { [r \in Coord |-> [c \in Coord |-> 1 + ((r + c) % 2)]],
      [r \in Coord |-> [c \in Coord |-> 1 + (((r \div 2) + c) % 2)]] }

RECURSIVE DenseBoards(_)
DenseBoards(k) ==
    IF k = 0 THEN FullBoards
    ELSE DenseBoards(k - 1)
         \cup { SetCell(b, x, PlayerNone) : b \in DenseBoards(k - 1), x \in StoneSites }

\* (row, col) answers of the oracle, as twice the numbers: the four corners
\* and the centre of the grid, and answers with a coordinate of -1,
\* BOARD_SIZE or 1/2.
OracleCoordinates ==
    { <<2 * r, 2 * c>> : r \in {0, BOARD_SIZE - 1}, c \in {0, BOARD_SIZE - 1} }
    \cup { <<2 * (BOARD_SIZE \div 2), 2 * (BOARD_SIZE \div 2)>> }
    \cup { <<-2, 0>>, <<0, 2 * BOARD_SIZE>>, <<1, 0>>, <<0, 1>> }

OracleOutcomes ==
    { OracleError,
      OracleValue(FALSE, JsonOther("undefined"), JsonOther("undefined")),
      OracleValue(TRUE, JsonOther("undefined"), JsonOther("undefined")),
      OracleValue(TRUE, JsonNumber(0), JsonOther("string")) }
    \cup { OracleValue(TRUE, JsonNumber(rc[1]), JsonNumber(rc[2])) : rc \in OracleCoordinates }

Difficulties == {"EASY", "MEDIUM", "HARD"}
ApiKeys == {"", "key"}

AIInit ==
    /\ aGrid \in SparseBoards(MaxSparse) \cup DenseBoards(MaxHoles)
    /\ aCall = NoAICall
    /\ aPossible = {}
    /\ WinIdle /\ CodecIdle /\ SessionIdle

\* The oracle is consulted by tier Hard with an API key only.
OracleConsulted(key, level) == level = "HARD" /\ key # ""
NotConsulted == [kind |-> "none", truthy |-> FALSE,
                 row |-> JsonOther("undefined"), col |-> JsonOther("undefined")]

CallGetBestMove(key, aiPlayer, level, oracle) ==
    /\ aCall = NoAICall
    /\ OracleConsulted(key, level) <=> oracle # NotConsulted
    /\ aCall' = [apiKey |-> key, aiPlayer |-> aiPlayer, difficulty |-> level,
                 oracle |-> oracle]
    /\ aPossible' = getBestMoves(key, aGrid, aiPlayer, level, oracle)
    /\ UNCHANGED <<aGrid, winVars, codecVars, sessionVars>>

AINext ==
    \E key \in ApiKeys, aiPlayer \in Stones, level \in Difficulties,
       oracle \in OracleOutcomes \cup {NotConsulted} :
        CallGetBestMove(key, aiPlayer, level, oracle)

SpecAI == AIInit /\ [][AINext]_vars

EmptyCells(grid) == { x \in Cells : grid[x.row][x.col] = PlayerNone }

\* The cells of the grid next to x, diagonals included.
Neighbours(x) ==
    { y \in Cells : y # x /\ Abs(y.row - x.row) <= 1 /\ Abs(y.col - x.col) <= 1 }

\* The Empty cells with at least one occupied neighbour.
EmptyNearStone(grid) ==
    { x \in EmptyCells(grid) : \E y \in Neighbours(x) : grid[y.row][y.col] # PlayerNone }

\* C9: on a board with an Empty cell, whatever the tier, the acting player,
\* the API key, the oracle's outcome and the draws, getBestMove returns
\* in-range coordinates of an Empty cell; on a full board it returns (0, 0).
C9_MoveIsLegal ==
    aCall # NoAICall =>
        /\ aPossible # {}
        /\ IF EmptyCells(aGrid) # {}
           THEN \A m \in aPossible :
                   /\ m.row \in 0 .. (BOARD_SIZE - 1)
                   /\ m.col \in 0 .. (BOARD_SIZE - 1)
                   /\ aGrid[m.row][m.col] = PlayerNone
           ELSE aPossible = { [row |-> 0, col |-> 0] }

\* Tier Hard was asked on a board with an Empty cell and the oracle answered
\* with the in-range coordinates of an occupied cell.
C9_Witness ==
    /\ aCall.difficulty = "HARD"
    /\ aCall.apiKey # ""
    /\ aCall.oracle.kind = "value"
    /\ aCall.oracle.truthy
    /\ aCall.oracle.row.type = "number"
    /\ aCall.oracle.col.type = "number"
    /\ aCall.oracle.row.twice \in { 2 * k : k \in Coord }
    /\ aCall.oracle.col.twice \in { 2 * k : k \in Coord }
    /\ aGrid[aCall.oracle.row.twice \div 2][aCall.oracle.col.twice \div 2] # PlayerNone
    /\ EmptyCells(aGrid) # {}
    /\ aPossible # {}

\* C10: on a board that is not full, the coordinates tier Easy can return
\* are exactly the Empty cells with an occupied neighbour when there are
\* such cells, and exactly the Empty cells otherwise.
C10_EasyChoosesNearStones ==
    (aCall.difficulty = "EASY" /\ EmptyCells(aGrid) # {}) =>
        aPossible = IF EmptyNearStone(aGrid) # {}
                    THEN EmptyNearStone(aGrid)
                    ELSE EmptyCells(aGrid)

\* Tier Easy was asked on a board where some Empty cells have an occupied
\* neighbour, one of them only diagonally, and other Empty cells have none.
C10_Witness ==
    /\ aCall.difficulty = "EASY"
    /\ EmptyNearStone(aGrid) # {}
    /\ EmptyNearStone(aGrid) # EmptyCells(aGrid)
    /\ \E x \in aPossible :
          \A y \in Neighbours(x) :
              aGrid[y.row][y.col] # PlayerNone => (y.row # x.row /\ y.col # x.col)

\* The oracle's answer names a cell of the grid: both fields are numbers,
\* whole, at least 0 and below BOARD_SIZE.
OracleNamesCell(o) ==
    /\ o.kind = "value"
    /\ o.row.type = "number" /\ o.col.type = "number"
    /\ \E x \in Cells : o.row.twice = 2 * x.row /\ o.col.twice = 2 * x.col

OracleCell(o) == Cell(o.row.twice \div 2, o.col.twice \div 2)

\* C13: tier Hard always returns a move; it returns the oracle's cell only
\* when there is an API key and the answer names an in-range cell that is
\* Empty on the board, and then returns that cell; for every other outcome
\* (no key, an error, a falsy answer, missing or non-numeric fields, a
\* coordinate out of range or not whole, an occupied cell) its moves are
\* those of tier Medium on the same board.
C13_HardValidatesOracle ==
    aCall.difficulty = "HARD" =>
        /\ aPossible # {}
        /\ IF /\ aCall.apiKey # ""
              /\ OracleNamesCell(aCall.oracle)
              /\ OracleCell(aCall.oracle) \in EmptyCells(aGrid)
           THEN aPossible = { OracleCell(aCall.oracle) }
           ELSE aPossible = getMediumMoves(aGrid, aCall.aiPlayer)

\* Tier Hard was asked with an API key on a board with stones and Empty
\* cells, and the request failed.
C13_Witness ==
    /\ aCall.difficulty = "HARD"
    /\ aCall.apiKey # ""
    /\ aCall.oracle.kind = "error"
    /\ EmptyCells(aGrid) # {}
    /\ EmptyCells(aGrid) # Cells
    /\ aPossible # {}
    /\ aPossible \subseteq EmptyCells(aGrid)

\* C14: without an API key the moves tier Hard can return are exactly the
\* moves tier Medium can return on the same board for the same player, and
\* the oracle is not consulted.
C14_HardWithoutKeyIsMedium ==
    (aCall.difficulty = "HARD" /\ aCall.apiKey = "") =>
        /\ aCall.oracle = NotConsulted
        /\ aPossible = getMediumMoves(aGrid, aCall.aiPlayer)

\* Tier Hard was asked without an API key on a board where the draws decide
\* between several cells, not all the Empty ones.
C14_Witness ==
    /\ aCall.difficulty = "HARD"
    /\ aCall.apiKey = ""
    /\ Cardinality(aPossible) > 1
    /\ aPossible # EmptyCells(aGrid)
    /\ aPossible \subseteq EmptyCells(aGrid)

----------------------------------------------------------------------------
(* The App component (App.tsx): one game session.  The state is the        *)
(* component's useState cells; a step is one event handler, the mount      *)
(* effect, or the callback of the timer that handleCellClick starts.       *)

GameModes == {"LOCAL", "AI", "REMOTE_LINK"}

\* A JavaScript array of arrays is an outer array of references to row
\* objects.  An object graph is the row objects by identity (heap) and the
\* outer array (ref).
GridObject(grid) ==
    [heap |-> [i \in Coord |-> grid[i]], ref |-> [r \in Coord |-> r]]

Deref(heap, ref) == [r \in Coord |-> heap[ref[r]]]

\* [...grid]: a new outer array over the same row objects.
CopyGrid_SharedRows(obj) ==
    [heap |-> [i \in 0 .. (2 * BOARD_SIZE - 1) |->
                  IF i < BOARD_SIZE THEN obj.heap[i]
                  ELSE obj.heap[obj.ref[i - BOARD_SIZE]]],
     ref |-> obj.ref]

\* grid.map(r => [...r]): a new outer array over new row objects.
CopyGrid(obj) ==
    [heap |-> [i \in 0 .. (2 * BOARD_SIZE - 1) |->
                  IF i < BOARD_SIZE THEN obj.heap[i]
                  ELSE obj.heap[obj.ref[i - BOARD_SIZE]]],
     ref |-> [r \in Coord |-> BOARD_SIZE + r]]

\* newGrid[row][col] = player
PlaceStone(obj, row, col, player) ==
    [obj EXCEPT !.heap[obj.ref[row]][col] = player]

\* The copy-and-place step: the new grid, and what the grid that was passed
\* in holds afterwards.
CopyAndPlace(grid, row, col, player) ==
    LET input == GridObject(grid)
        placed == PlaceStone(CopyGrid(input), row, col, player)
    IN  [newGrid |-> Deref(placed.heap, placed.ref),
         input |-> Deref(placed.heap, input.ref)]

\* The truthiness of boardState.winner.
WinnerTruthy(winner) == winner # NoWinner /\ winner # PlayerNone

\* The validation without the test of isThinking.
ClickOutcome_NoThinkingTest(bs, thinking, row, col) ==
    IF WinnerTruthy(bs.winner) THEN "returned"
    ELSE IF row \notin Coord THEN "threw"
    ELSE IF col \notin Coord THEN "returned"
    ELSE IF bs.grid[row][col] # PlayerNone THEN "returned"
    ELSE "accepted"

\* The validation of its first line, evaluated left to right, without the
\* test of boardState.winner.
ClickOutcome_NoWinnerTest(bs, thinking, row, col) ==
    IF row \notin Coord THEN "threw"
    ELSE IF col \notin Coord THEN "returned"
    ELSE IF bs.grid[row][col] # PlayerNone THEN "returned"
    ELSE IF thinking THEN "returned"
    ELSE "accepted"

\* handleCellClick's validation, evaluated left to right: grid[row] is
\* undefined for a row out of range and reading [col] of it throws; a row
\* read at a column out of range is undefined, which is not Player.None.
ClickOutcome(bs, thinking, row, col) ==
    IF WinnerTruthy(bs.winner) THEN "returned"
    ELSE IF row \notin Coord THEN "threw"
    ELSE IF col \notin Coord THEN "returned"
    ELSE IF bs.grid[row][col] # PlayerNone THEN "returned"
    ELSE IF thinking THEN "returned"
    ELSE "accepted"

OtherPlayer(p) == IF p = PlayerBlack THEN PlayerWhite ELSE PlayerBlack

Move(row, col, player) == [row |-> row, col |-> col, player |-> player]

\* The mount effect's boardState with >= for > in the comparison of the
\* stone counts.
LoadedBoardState_AtLeast(token) ==
    LET decodedGrid == deserializeBoard(token)
        blackCount == Cardinality({ x \in Cells : decodedGrid[x.row][x.col] = PlayerBlack })
        whiteCount == Cardinality({ x \in Cells : decodedGrid[x.row][x.col] = PlayerWhite })
        nextPlayer == IF blackCount >= whiteCount THEN PlayerWhite ELSE PlayerBlack
    IN  [grid |-> decodedGrid, currentPlayer |-> nextPlayer, winner |-> NoWinner,
         history |-> <<>>, winningLine |-> NoLine]

\* The boardState the mount effect sets from a non-empty URL hash.
LoadedBoardState(token) ==
    LET decodedGrid == deserializeBoard(token)
        blackCount == Cardinality({ x \in Cells : decodedGrid[x.row][x.col] = PlayerBlack })
        whiteCount == Cardinality({ x \in Cells : decodedGrid[x.row][x.col] = PlayerWhite })
        nextPlayer == IF blackCount > whiteCount THEN PlayerWhite ELSE PlayerBlack
    IN  [grid |-> decodedGrid, currentPlayer |-> nextPlayer, winner |-> NoWinner,
         history |-> <<>>, winningLine |-> NoLine]

\* A step that placed no stone, and a step that placed one: the grid it was
\* given, as it was before the step and as it is after it.
Op(op, outcome) ==
    [op |-> op, outcome |-> outcome,
     inputBefore |-> createEmptyGrid, inputAfter |-> createEmptyGrid]

PlacedOp(op, before, after) ==
    [op |-> op, outcome |-> "accepted", inputBefore |-> before, inputAfter |-> after]

\* Boards a shared link can carry: WIN_COUNT - 1 stones of player p at the
\* start of row 0, as many of the other player in row 2 and, with extra, one
\* more Black stone, which leaves White to move.
FourBoard(p, extra) ==
    LET sites == { Cell(0, c) : c \in 0 .. (WIN_COUNT - 2) }
                 \cup { Cell(2, c) : c \in 0 .. (WIN_COUNT - 2) }
                 \cup (IF extra THEN { Cell(BOARD_SIZE - 1, 0) } ELSE {})
    IN  GridOf([x \in sites |->
                   IF x.row = 0 THEN p
                   ELSE IF x.row = 2 THEN OtherPlayer(p)
                   ELSE PlayerBlack])

TokenBoards == { FourBoard(p, extra) : p \in Stones, extra \in BOOLEAN }

\* window.location.hash.slice(1): empty, a board's token, and a token of
\* the wrong length.
HashInputs ==
    { <<>>, <<"1", "2">> } \cup { serializeBoard(b) : b \in TokenBoards }

\* The (row, col) pairs handleCellClick is called with.
\* The (row, col) pairs handleCellClick is called with: the cell that
\* completes row 0 of a FourBoard, another cell it has no stone on, a row
\* out of range and a column out of range.
ClickInputs ==
    { Cell(0, WIN_COUNT - 1), Cell(1, 1), Cell(-1, 0), Cell(0, BOARD_SIZE) }

\* What the request of getHardMove settles with, during a session.
SessionOracleOutcomes ==
    { OracleError,
      OracleValue(TRUE, JsonNumber(0), JsonNumber(0)),
      OracleValue(TRUE, JsonNumber(2 * (BOARD_SIZE \div 2)), JsonNumber(2 * (BOARD_SIZE \div 2))) }

\* The state after the first render and its mount effect.
SessionInit ==
    /\ \E storedKey \in ApiKeys : apiKey = storedKey
    /\ hash \in HashInputs
    /\ IF hash # <<>>
       THEN boardState = LoadedBoardState(hash) /\ gameMode = "REMOTE_LINK"
       ELSE boardState = InitialBoardState /\ gameMode = "LOCAL"
    /\ difficulty = "MEDIUM"
    /\ isThinking = FALSE
    /\ aiTask = NoTask
    /\ lastOp = Op("mount", "done")
    /\ WinIdle /\ CodecIdle /\ AIIdle

\* The test before the AI's turn without its !winningLine.
AITurn_NoWinTest(winningLine, mode, player) ==
    mode = "AI" /\ player = PlayerBlack

\* The test that starts the AI's turn: the click did not win, the mode is AI
\* and the stone just placed was Black's.
AITurn(winningLine, mode, player) ==
    winningLine = NoLine /\ mode = "AI" /\ player = PlayerBlack

\* handleCellClick(row, col)
HandleCellClick(row, col) ==
    LET outcome == ClickOutcome(boardState, isThinking, row, col) IN
    IF outcome # "accepted"
    THEN /\ lastOp' = Op("click", outcome)
         /\ UNCHANGED <<appVars, aiTask, hash, winVars, codecVars, aiVars>>
    ELSE LET step == CopyAndPlace(boardState.grid, row, col, boardState.currentPlayer)
             newGrid == step.newGrid
             winningLine == checkWin(newGrid, row, col, boardState.currentPlayer)
             newHistory == Append(boardState.history,
                                  Move(row, col, boardState.currentPlayer))
             aiTurn == AITurn(winningLine, gameMode, boardState.currentPlayer)
         IN  /\ boardState' =
                   [grid |-> newGrid,
                    currentPlayer |-> IF boardState.currentPlayer = PlayerBlack
                                      THEN PlayerWhite ELSE PlayerBlack,
                    winner |-> IF winningLine # NoLine
                               THEN boardState.currentPlayer ELSE NoWinner,
                    winningLine |-> winningLine,
                    history |-> newHistory]
             /\ isThinking' = IF aiTurn THEN TRUE ELSE isThinking
             /\ aiTask' = IF aiTurn
                          THEN [phase |-> "timer", grid |-> newGrid,
                                history |-> boardState.history,
                                apiKey |-> apiKey, difficulty |-> difficulty]
                          ELSE aiTask
             /\ lastOp' = PlacedOp("click", boardState.grid, step.input)
             /\ UNCHANGED <<gameMode, difficulty, apiKey, hash, winVars, codecVars, aiVars>>

\* makeAIMove(currentGrid, move), in the closure of the render in which the
\* click was handled: its boardState.history is the history before the click.
MakeAIMove(currentGrid, move) ==
    LET step == CopyAndPlace(currentGrid, move.row, move.col, PlayerWhite)
        newGrid == step.newGrid
        winningLine == checkWin(newGrid, move.row, move.col, PlayerWhite)
        newHistory == Append(aiTask.history, Move(move.row, move.col, PlayerWhite))
    IN  /\ boardState' =
              [grid |-> newGrid,
               currentPlayer |-> PlayerBlack,
               winner |-> IF winningLine # NoLine THEN PlayerWhite ELSE NoWinner,
               winningLine |-> winningLine,
               history |-> newHistory]
        /\ isThinking' = FALSE
        /\ aiTask' = NoTask
        /\ lastOp' = PlacedOp("ai", currentGrid, step.input)
        /\ UNCHANGED <<gameMode, difficulty, apiKey, hash, winVars, codecVars, aiVars>>

\* The timer's callback when getBestMove settles without a request: tiers
\* Easy and Medium, and tier Hard without an API key.
AIMoveComputed ==
    /\ aiTask.phase = "timer"
    /\ ~OracleConsulted(aiTask.apiKey, aiTask.difficulty)
    /\ \E move \in getBestMoves(aiTask.apiKey, aiTask.grid, PlayerWhite,
                                aiTask.difficulty, NotConsulted) :
          MakeAIMove(aiTask.grid, move)

\* The timer's callback when getHardMove sends its request and awaits it.
OracleRequested ==
    /\ aiTask.phase = "timer"
    /\ OracleConsulted(aiTask.apiKey, aiTask.difficulty)
    /\ aiTask' = [aiTask EXCEPT !.phase = "oracle"]
    /\ UNCHANGED <<appVars, lastOp, hash, winVars, codecVars, aiVars>>

\* The request settles with oracle; getBestMove resolves and the callback
\* goes on to makeAIMove.
OracleSettled(oracle) ==
    /\ aiTask.phase = "oracle"
    /\ \E move \in getBestMoves(aiTask.apiKey, aiTask.grid, PlayerWhite,
                                aiTask.difficulty, oracle) :
          MakeAIMove(aiTask.grid, move)

\* resetGame(); its pushState leaves the URL without a hash.
ResetGame ==
    /\ boardState' = InitialBoardState
    /\ hash' = <<>>
    /\ lastOp' = Op("reset", "done")
    /\ UNCHANGED <<gameMode, difficulty, apiKey, isThinking, aiTask,
                   winVars, codecVars, aiVars>>

\* A mode button: setGameMode(mode); resetGame()
SelectGameMode(mode) ==
    /\ gameMode' = mode
    /\ boardState' = InitialBoardState
    /\ hash' = <<>>
    /\ lastOp' = Op("reset", "done")
    /\ UNCHANGED <<difficulty, apiKey, isThinking, aiTask,
                   winVars, codecVars, aiVars>>

\* A difficulty button, rendered in mode AI only: setDifficulty(level)
SetDifficulty(level) ==
    /\ gameMode = "AI"
    /\ difficulty' = level
    /\ UNCHANGED <<boardState, gameMode, apiKey, isThinking, aiTask, lastOp, hash,
                   winVars, codecVars, aiVars>>

\* saveApiKey(key)
SaveApiKey(key) ==
    /\ apiKey' = key
    /\ UNCHANGED <<boardState, gameMode, difficulty, isThinking, aiTask, lastOp, hash,
                   winVars, codecVars, aiVars>>

Next ==
    \/ \E x \in ClickInputs : HandleCellClick(x.row, x.col)
    \/ AIMoveComputed
    \/ OracleRequested
    \/ \E oracle \in SessionOracleOutcomes : OracleSettled(oracle)
    \/ ResetGame
    \/ \E mode \in GameModes : SelectGameMode(mode)
    \/ \E level \in Difficulties : SetDifficulty(level)
    \/ \E key \in ApiKeys : SaveApiKey(key)

Spec == SessionInit /\ [][Next]_vars

\* The move the last accepted step placed: the entry it appended to history.
LastMove == boardState.history[Len(boardState.history)]

\* C7: when a step has placed a stone on an Empty cell in range, by
\* handleCellClick for the user or by makeAIMove for the AI, the new grid
\* differs from the grid the step was given in exactly the target cell,
\* which holds the mover's stone, and the grid it was given still holds
\* what it held before the step.
C7_CopyAndPlace ==
    (/\ lastOp.outcome = "accepted"
     /\ InRange(LastMove.row, LastMove.col)
     /\ lastOp.inputBefore[LastMove.row][LastMove.col] = PlayerNone) =>
        /\ lastOp.inputAfter = lastOp.inputBefore
        /\ LastMove.player \in Stones
        /\ lastOp.op = "ai" => LastMove.player = PlayerWhite
        /\ \A x \in Cells :
              boardState.grid[x.row][x.col] =
                  IF x = Cell(LastMove.row, LastMove.col) THEN LastMove.player
                  ELSE lastOp.inputBefore[x.row][x.col]

\* makeAIMove has placed the AI's stone on a grid that had a stone already.
C7_Witness ==
    /\ lastOp.op = "ai"
    /\ lastOp.outcome = "accepted"
    /\ lastOp.inputBefore # createEmptyGrid
    /\ lastOp.inputBefore[LastMove.row][LastMove.col] = PlayerNone
    /\ boardState.grid[LastMove.row][LastMove.col] = PlayerWhite

\* C8: a handleCellClick step whose target cell is occupied, whose
\* coordinates are out of range, or that finds a winner recorded, is not
\* accepted and leaves grid, currentPlayer, winner, winningLine, history and
\* isThinking unchanged; an accepted one had its target Empty and in range
\* and no winner recorded.
C8_RejectedClickChangesNothing ==
    [][ \A x \in ClickInputs :
          HandleCellClick(x.row, x.col) =>
            LET outOfRange == ~InRange(x.row, x.col)
                occupied == InRange(x.row, x.col)
                            /\ boardState.grid[x.row][x.col] # PlayerNone
                won == boardState.winner # NoWinner
            IN  /\ (occupied \/ outOfRange \/ won) =>
                      /\ lastOp'.outcome # "accepted"
                      /\ UNCHANGED <<boardState, isThinking>>
                /\ lastOp'.outcome = "accepted" =>
                      ~occupied /\ ~outOfRange /\ ~won ]_vars

\* A click has been turned away from a game that has a winner.
C8_Witness ==
    /\ lastOp.op = "click"
    /\ lastOp.outcome = "returned"
    /\ boardState.winner \in Stones
    /\ boardState.winningLine # NoLine

\* C15: a session started from a non-empty URL hash has, until its first
\* click or reset, the grid deserializeBoard gives for the hash, no winner,
\* no winning line, an empty history and mode Remote, and its current
\* player is White when the grid has more Black than White stones and Black
\* when it has as many.
C15_TokenStart ==
    (lastOp.op = "mount" /\ hash # <<>>) =>
        /\ boardState.grid = deserializeBoard(hash)
        /\ boardState.winner = NoWinner
        /\ boardState.winningLine = NoLine
        /\ boardState.history = <<>>
        /\ gameMode = "REMOTE_LINK"
        /\ StoneCount(boardState.grid, PlayerBlack) > StoneCount(boardState.grid, PlayerWhite)
              => boardState.currentPlayer = PlayerWhite
        /\ StoneCount(boardState.grid, PlayerBlack) = StoneCount(boardState.grid, PlayerWhite)
              => boardState.currentPlayer = PlayerBlack

\* A session was started from the token of a board with one more Black
\* stone than White stones.
C15_Witness ==
    /\ lastOp.op = "mount"
    /\ Len(hash) = BOARD_SIZE * BOARD_SIZE
    /\ StoneCount(boardState.grid, PlayerWhite) > 0
    /\ StoneCount(boardState.grid, PlayerBlack) = StoneCount(boardState.grid, PlayerWhite) + 1
    /\ boardState.currentPlayer = PlayerWhite

----------------------------------------------------------------------------
(* SpecEndgame: a session in mode AI one move before the board is full.    *)
(* With BOARD_SIZE odd the board has an odd number of cells, Black (the    *)
(* user) opens, and the last Empty cell falls to the user.                 *)

\* A full board with no run longer than two: stones alternate along every
\* row, in pairs of rows.  It has one more Black stone than White stones
\* when BOARD_SIZE is odd.
EndgameFull == [r \in Coord |-> [c \in Coord |-> 1 + (((r \div 2) + c) % 2)]]

\* The cell the user has not played yet; it holds a Black stone in
\* EndgameFull.
EndgameHole == Cell(0, WIN_COUNT - 1)

EndgameBoard == SetCell(EndgameFull, EndgameHole, PlayerNone)

\* The history after the AI's moves: makeAIMove appends to the history of
\* before the click, so it holds the AI's moves only.
EndgameHistory ==
    LET isWhite(x) == EndgameBoard[x.row][x.col] = PlayerWhite
        cells == SelectSeq(CellOrder, isWhite)
    IN  [i \in 1 .. Len(cells) |-> Move(cells[i].row, cells[i].col, PlayerWhite)]

EndgameInit ==
    /\ boardState = [grid |-> EndgameBoard, currentPlayer |-> PlayerBlack,
                     winner |-> NoWinner, history |-> EndgameHistory,
                     winningLine |-> NoLine]
    /\ gameMode = "AI"
    /\ difficulty \in Difficulties
    /\ apiKey \in ApiKeys
    /\ isThinking = FALSE
    /\ aiTask = NoTask
    /\ hash = <<>>
    /\ LET last == EndgameHistory[Len(EndgameHistory)]
           before == SetCell(EndgameBoard, Cell(last.row, last.col), PlayerNone)
       IN  lastOp = PlacedOp("ai", before, before)
    /\ WinIdle /\ CodecIdle /\ AIIdle

SpecEndgame == EndgameInit /\ [][Next]_vars

----------------------------------------------------------------------------
(* SpecFair: the session with the fairness its scheduling gives to the     *)
(* oracle's request.  The timer started by handleCellClick fires and        *)
(* getHardMove sends the request; nothing in the code bounds the time the  *)
(* request takes, so no fairness is stated for its settlement.  The timer  *)
(* of a tier that does not consult the oracle fires too; it is not running *)
(* in the states C18 is stated for, so its fairness is left out.           *)

SpecFair ==
    /\ SessionInit
    /\ [][Next]_vars
    /\ WF_vars(OracleRequested)

\* A step that places a stone: it sets lastOp to a new accepted placement.
PlacesStone == lastOp' # lastOp /\ lastOp'.outcome = "accepted"

\* C16: every step that places a stone, by handleCellClick or by
\* makeAIMove, places it on a cell that is Empty in the session's grid as
\* the step finds it.
C16_PlacementOnEmptyCell ==
    [][ PlacesStone =>
          LET m == boardState'.history[Len(boardState'.history)]
          IN  InRange(m.row, m.col) /\ boardState.grid[m.row][m.col] = PlayerNone ]_vars

\* C17: once the session is reset, the next change of boardState is made by
\* a user click: no AI move scheduled before the reset is written.
C17_ResetAbandonsAIMove ==
    [][ (lastOp.op = "reset" /\ boardState' # boardState) => lastOp'.op = "click" ]_vars

\* C18: in tier Hard with the oracle consulted, once the oracle's request
\* is outstanding isThinking eventually becomes false again, whether or not
\* the oracle answers.
C18_ThinkingEnds == (isThinking /\ aiTask.phase = "oracle") ~> ~isThinking

\* C20: an AI move is never scheduled for, nor applied to, a grid without an
\* Empty cell.
C20_NoAIMoveOnFullBoard ==
    /\ aiTask.phase # "none" => EmptyCells(aiTask.grid) # {}
    /\ lastOp.op = "ai" => EmptyCells(lastOp.inputBefore) # {}

\* C21: every step that places a stone leaves a history that is the
\* history before the step with one entry appended, and that entry is the
\* stone the step placed.
C21_HistoryAppendOnly ==
    [][ PlacesStone =>
          LET h == boardState.history
              hNew == boardState'.history
          IN  /\ Len(hNew) = Len(h) + 1
              /\ SubSeq(hNew, 1, Len(h)) = h
              /\ InRange(hNew[Len(hNew)].row, hNew[Len(hNew)].col)
              /\ boardState'.grid[hNew[Len(hNew)].row][hNew[Len(hNew)].col]
                   = hNew[Len(hNew)].player ]_vars

\* An AI move is outstanding from the click that starts the timer until
\* makeAIMove has run.
AIOutstanding == aiTask.phase # "none"

\* C22: isThinking is true exactly when an AI move is outstanding; an AI
\* move is scheduled only when none is outstanding; and while one is
\* outstanding no call of handleCellClick is accepted or changes boardState,
\* isThinking or the outstanding move.
C22_OneAIMoveOutstanding ==
    /\ [](isThinking <=> AIOutstanding)
    /\ [][ /\ (aiTask' # aiTask /\ aiTask'.phase = "timer") => ~AIOutstanding
           /\ AIOutstanding =>
                \A x \in ClickInputs :
                    HandleCellClick(x.row, x.col) =>
                        /\ lastOp'.outcome # "accepted"
                        /\ UNCHANGED <<boardState, isThinking, aiTask>> ]_vars

\* A click on an Empty cell of a game without a winner has been turned away
\* while an AI move was outstanding.
C22_Witness ==
    /\ AIOutstanding
    /\ isThinking
    /\ lastOp.op = "click"
    /\ lastOp.outcome = "returned"
    /\ \A x \in ClickInputs :
          InRange(x.row, x.col) =>
              /\ ClickOutcome(boardState, FALSE, x.row, x.col) = "accepted"
              /\ ClickOutcome(boardState, isThinking, x.row, x.col) = "returned"

----------------------------------------------------------------------------
(* SpecPlay: a session in mode Local or AI in the middle of a game that    *)
(* began on the empty board: each player has WIN_COUNT - 1 stones in a row *)
(* and Black is to move.                                                   *)

\* The cells of row r that a FourBoard has stones on, left to right.
FourRow(r) == [i \in 1 .. (WIN_COUNT - 1) |-> Cell(r, i - 1)]

\* The moves that built FourBoard(p, FALSE), Black's and White's in turn.
PlayMoves(p) ==
    LET blackRow == IF p = PlayerBlack THEN 0 ELSE 2
        whiteRow == IF p = PlayerBlack THEN 2 ELSE 0
    IN  [i \in 1 .. (2 * (WIN_COUNT - 1)) |->
            IF i % 2 = 1
            THEN Move(blackRow, FourRow(blackRow)[(i + 1) \div 2].col, PlayerBlack)
            ELSE Move(whiteRow, FourRow(whiteRow)[i \div 2].col, PlayerWhite)]

\* The history the session holds after those moves: handleCellClick keeps
\* all of them, makeAIMove leaves the AI's only.
PlayHistory(p, mode) ==
    LET isKept(mv) == mode = "LOCAL" \/ mv.player = PlayerWhite
    IN  SelectSeq(PlayMoves(p), isKept)

PlayInit ==
    /\ \E p \in Stones, mode \in {"LOCAL", "AI"} :
          LET last == PlayMoves(p)[2 * (WIN_COUNT - 1)]
              before == SetCell(FourBoard(p, FALSE), Cell(last.row, last.col), PlayerNone)
          IN  /\ boardState = [grid |-> FourBoard(p, FALSE),
                               currentPlayer |-> PlayerBlack,
                               winner |-> NoWinner,
                               history |-> PlayHistory(p, mode),
                               winningLine |-> NoLine]
              /\ gameMode = mode
              /\ lastOp = PlacedOp(IF mode = "AI" THEN "ai" ELSE "click", before, before)
    /\ difficulty \in Difficulties
    /\ apiKey \in ApiKeys
    /\ isThinking = FALSE
    /\ aiTask = NoTask
    /\ hash = <<>>
    /\ WinIdle /\ CodecIdle /\ AIIdle

SpecPlay == PlayInit /\ [][Next]_vars

\* C23: in a session whose board began empty, a winner is recorded exactly
\* when the grid holds WIN_COUNT or more stones of one player in a row
\* along one of the four directions; and when a winner is recorded, there
\* is a winning line and each of its cells holds the winner's stone.
C23_WinnerIffRun ==
    hash = <<>> =>
        /\ boardState.winner # NoWinner <=> HasRun(boardState.grid)
        /\ boardState.winner # NoWinner =>
              /\ boardState.winner \in Stones
              /\ boardState.winningLine # NoLine
              /\ \A i \in 1 .. Len(boardState.winningLine) :
                    boardState.grid[boardState.winningLine[i].row]
                                   [boardState.winningLine[i].col] = boardState.winner

\* The AI has completed its row and is recorded as the winner.
C23_Witness ==
    /\ hash = <<>>
    /\ lastOp.op = "ai"
    /\ boardState.winner = PlayerWhite
    /\ Len(boardState.winningLine) = WIN_COUNT
    /\ HasRun(boardState.grid)

\* C24: while a winner is recorded no AI move is outstanding and none is
\* scheduled, and the only step that changes boardState is a reset, by
\* resetGame or by a mode button, which sets the initial boardState.
C24_WinnerIsTerminal ==
    [][ WinnerTruthy(boardState.winner) =>
          /\ ~AIOutstanding
          /\ aiTask' = aiTask
          /\ isThinking' = isThinking
          /\ boardState' # boardState =>
                (lastOp'.op = "reset" /\ boardState' = InitialBoardState) ]_vars

\* In mode AI the user's click has won the game and no AI move was
\* scheduled after it.
C24_Witness ==
    /\ gameMode = "AI"
    /\ lastOp.op = "click"
    /\ lastOp.outcome = "accepted"
    /\ boardState.winner = PlayerBlack
    /\ LastMove.player = PlayerBlack
    /\ ~AIOutstanding
    /\ ~isThinking

----------------------------------------------------------------------------
(* SpecLink: a session opened from a link whose token was not exported by  *)
(* a game in progress.  The mount effect takes any hash of BOARD_SIZE *    *)
(* BOARD_SIZE characters; it does not compare the stone counts with what   *)
(* alternate play from the empty board gives.                              *)

\* Boards with one White stone and no Black stone, and with two Black
\* stones and no White stone.
UnbalancedBoards ==
    { GridOf([x \in { Cell(0, 0) } |-> PlayerWhite]),
      GridOf([x \in { Cell(0, 0), Cell(0, 1) } |-> PlayerBlack]) }

LinkHashInputs == { serializeBoard(b) : b \in UnbalancedBoards }

LinkInit ==
    /\ \E storedKey \in ApiKeys : apiKey = storedKey
    /\ hash \in LinkHashInputs
    /\ boardState = LoadedBoardState(hash)
    /\ gameMode = "REMOTE_LINK"
    /\ difficulty = "MEDIUM"
    /\ isThinking = FALSE
    /\ aiTask = NoTask
    /\ lastOp = Op("mount", "done")
    /\ WinIdle /\ CodecIdle /\ AIIdle

SpecLink == LinkInit /\ [][Next]_vars

\* C25: in mode Local or Remote the grid has as many Black as White stones
\* or one Black stone more, Black is to move exactly when the counts are
\* equal, and the boardState loaded from the grid's token has the session's
\* grid and current player.
C25_CountsGiveTurn ==
    gameMode \in {"LOCAL", "REMOTE_LINK"} =>
        LET lead == StoneCount(boardState.grid, PlayerBlack)
                    - StoneCount(boardState.grid, PlayerWhite)
            loaded == LoadedBoardState(serializeBoard(boardState.grid))
        IN  /\ lead \in {0, 1}
            /\ boardState.currentPlayer = PlayerBlack <=> lead = 0
            /\ loaded.grid = boardState.grid
            /\ loaded.currentPlayer = boardState.currentPlayer

----------------------------------------------------------------------------
(* SpecMedium: tier Medium asked on boards with threats.  A threat board   *)
(* has WIN_COUNT - 1 stones of one player in a row along any direction     *)
(* anywhere in the grid and, of either player, one of a few side shapes.   *)

\* The side shapes: nothing, four stones along the bottom edge, and three
\* stones down the right edge.
SideShapes ==
    { {},
      { Cell(BOARD_SIZE - 1, c) : c \in 0 .. (WIN_COUNT - 2) },
      { Cell(r, BOARD_SIZE - 1) : r \in 0 .. (WIN_COUNT - 3) } }

\* The runs of WIN_COUNT - 1 cells that fit in the grid.
FourRuns ==
    { run \in { Window(x.row, x.col, d, 0, WIN_COUNT - 1) : x \in Cells, d \in 1 .. 4 } :
        \A y \in run : InRange(y.row, y.col) }

ThreatBoards ==
    { GridOf([y \in run \cup side |-> IF y \in run THEN p ELSE q]) :
        run \in FourRuns, side \in SideShapes, p \in Stones, q \in Stones }

MediumInit ==
    /\ aGrid \in ThreatBoards
    /\ aCall = NoAICall
    /\ aPossible = {}
    /\ WinIdle /\ CodecIdle /\ SessionIdle

MediumNext ==
    \E aiPlayer \in Stones : CallGetBestMove("", aiPlayer, "MEDIUM", NotConsulted)

SpecMedium == MediumInit /\ [][MediumNext]_vars

\* The Empty cells where a stone of p would complete a run of WIN_COUNT or
\* more of p's stones.
WinningCells(grid, p) ==
    { x \in EmptyCells(grid) :
        \E d \in 1 .. 4 : MaxRun(grid, x.row, x.col, d, p) >= WIN_COUNT }

\* C11: when some Empty cell wins at once for the acting player, every cell
\* tier Medium can return, over all draws, is such a cell.
C11_MediumTakesWin ==
    (aCall.difficulty = "MEDIUM" /\ WinningCells(aGrid, aCall.aiPlayer) # {}) =>
        aPossible \subseteq WinningCells(aGrid, aCall.aiPlayer)

\* p has an open four: WIN_COUNT - 1 of p's stones in a row along some
\* direction, with the cell before the first and the cell after the last
\* both in the grid and Empty.
HasOpenFour(grid, p) ==
    \E x \in Cells, d \in 1 .. 4 :
        /\ \A y \in Window(x.row, x.col, d, 0, WIN_COUNT - 1) :
              InRange(y.row, y.col) /\ grid[y.row][y.col] = p
        /\ \A y \in { Cell(x.row - directions[d][1], x.col - directions[d][2]),
                      Cell(x.row + (WIN_COUNT - 1) * directions[d][1],
                           x.col + (WIN_COUNT - 1) * directions[d][2]) } :
              InRange(y.row, y.col) /\ grid[y.row][y.col] = PlayerNone

\* C12: when the opponent has an open four and no Empty cell wins at once
\* for the acting player, every cell tier Medium can return, over all
\* draws, is a cell where an opponent stone would complete a run of
\* WIN_COUNT or more.
C12_MediumBlocksOpenFour ==
    (/\ aCall.difficulty = "MEDIUM"
     /\ HasOpenFour(aGrid, OtherPlayer(aCall.aiPlayer))
     /\ WinningCells(aGrid, aCall.aiPlayer) = {}) =>
        /\ aPossible # {}
        /\ aPossible \subseteq WinningCells(aGrid, OtherPlayer(aCall.aiPlayer))

\* Tier Medium was asked on a board where the opponent has an open four and
\* the acting player has three stones in a row but no winning cell.
C12_Witness ==
    /\ aCall.difficulty = "MEDIUM"
    /\ HasOpenFour(aGrid, OtherPlayer(aCall.aiPlayer))
    /\ WinningCells(aGrid, aCall.aiPlayer) = {}
    /\ \A r \in 0 .. (WIN_COUNT - 3) : aGrid[r][BOARD_SIZE - 1] = aCall.aiPlayer
    /\ aPossible # {}

====
